---- MODULE Spec2Model ----
(***************************************************************************)
(* Model of the two QQ Bot send scripts, scripts/send_file_to_qq.py and    *)
(* scripts/send_image_qq.py.  One behaviour is one process run: the        *)
(* command line, the environment, the state of the file system and the     *)
(* platform's responses are the inputs; the requests issued, the lines     *)
(* printed and the exit status are the outputs.                            *)
(*                                                                         *)
(* Strings that the code takes apart (paths, command-line arguments) are   *)
(* sequences of one-character strings.  JSON values are tagged records.    *)
(***************************************************************************)
EXTENDS Integers, Sequences, FiniteSets

VARIABLES
    script,       \* which script runs: "file" (send_file_to_qq) or "image" (send_image_qq)
    argv,         \* sys.argv, argv[1] is the program name
    SANDBOX,      \* module constant SANDBOX
    fileKind,     \* what argv[2] names on disk: "missing", "regular" or "directory"
    fileBytes,    \* the bytes of that file when it is a regular file
    pc,           \* position of the run
    status,       \* exit status, meaningful when pc = "exited"
    token,        \* main's local token
    file_info,    \* main's local file_info
    success,      \* main's local success
    handleOpen,   \* TRUE while the handle f of the with-block is open
    file_data,    \* upload's local file_data
    token_data,   \* get_access_token's local data (the parsed response)
    upload_data,  \* upload's local data
    send_data,    \* send's local data
    requests,     \* the requests issued so far, in order
    events,       \* the order of file and network events of the run
    stdout        \* the lines printed (interpolated values left out)

vars == <<script, argv, SANDBOX, fileKind, fileBytes, pc, status, token,
          file_info, success, handleOpen, file_data, token_data, upload_data,
          send_data, requests, events, stdout>>

----------------------------------------------------------------------------
(* JSON values and Python truthiness *)

Null == [tag |-> "null", s |-> "", n |-> 0]

Str(x) == [tag |-> "str", s |-> x, n |-> 0]

Num(k) == [tag |-> "int", s |-> "", n |-> k]

\* variant: only None is falsy
Truthy_NotNone(v) == v.tag # "null"

\* bool(v) for the values above: None, "" and 0 are falsy
Truthy(v) ==
    CASE v.tag = "null" -> FALSE
      [] v.tag = "str"  -> v.s # ""
      [] v.tag = "int"  -> v.n # 0

\* variant: "v is None"
Not_IsNone(v) == v = Null

\* "not v", as in "if not token:" and "if not file_info:"
Not(v) == ~Truthy(v)

\* dict.get(k): the value under k, None when the key is absent
Get(d, k) == IF k \in DOMAIN d THEN d[k] ELSE Null

\* the local data before a response has been parsed
NoData == [unset |-> Null]

----------------------------------------------------------------------------
(* String helpers: str.lower, os.path.splitext, str.lstrip, os.path.basename *)

UpperToLower ==
    [c \in {"A","B","C","D","E","F","G","H","I","J","K","L","M","N","O","P",
            "Q","R","S","T","U","V","W","X","Y","Z"} |->
        CASE c = "A" -> "a" [] c = "B" -> "b" [] c = "C" -> "c" [] c = "D" -> "d"
          [] c = "E" -> "e" [] c = "F" -> "f" [] c = "G" -> "g" [] c = "H" -> "h"
          [] c = "I" -> "i" [] c = "J" -> "j" [] c = "K" -> "k" [] c = "L" -> "l"
          [] c = "M" -> "m" [] c = "N" -> "n" [] c = "O" -> "o" [] c = "P" -> "p"
          [] c = "Q" -> "q" [] c = "R" -> "r" [] c = "S" -> "s" [] c = "T" -> "t"
          [] c = "U" -> "u" [] c = "V" -> "v" [] c = "W" -> "w" [] c = "X" -> "x"
          [] c = "Y" -> "y" [] c = "Z" -> "z"]

\* variant: the extension is not lowercased
Lower_Identity(s) == s

\* str.lower()
Lower(s) ==
    [i \in 1..Len(s) |-> IF s[i] \in DOMAIN UpperToLower THEN UpperToLower[s[i]] ELSE s[i]]

\* str.rfind(c), 1-based; 0 when c does not occur
RFind(s, c) ==
    IF \E i \in 1..Len(s) : s[i] = c
    THEN CHOOSE i \in 1..Len(s) : s[i] = c /\ \A j \in (i+1)..Len(s) : s[j] # c
    ELSE 0

\* os.path.splitext(p)[1]: from the last dot of the last component on, unless
\* that component has only dots before it
SplitExt(p) ==
    LET sepIndex == RFind(p, "/")
        dotIndex == RFind(p, ".")
    IN  IF dotIndex > sepIndex
           /\ \E k \in (sepIndex+1)..(dotIndex-1) : p[k] # "."
        THEN SubSeq(p, dotIndex, Len(p))
        ELSE <<>>

\* variant: the dot is left on the extension
LStripDot_Keep(s) == s

RECURSIVE LStripDot(_)
\* str.lstrip('.')
LStripDot(s) ==
    IF s # <<>> /\ Head(s) = "." THEN LStripDot(Tail(s)) ELSE s

\* os.path.basename(p)
Basename(p) == SubSeq(p, RFind(p, "/") + 1, Len(p))

\* ext = os.path.splitext(file_path)[1].lower().lstrip('.')
Ext(file_path) == LStripDot(Lower(SplitExt(file_path)))

\* file_type_map
file_type_map ==
    [e \in { <<"j","p","g">>, <<"j","p","e","g">>, <<"p","n","g">>, <<"g","i","f">>,
             <<"m","p","4">>, <<"m","p","3">>, <<"w","a","v">>,
             <<"p","d","f">>, <<"t","x","t">>, <<"j","s","o","n">>, <<"m","d">> } |->
        CASE e \in { <<"j","p","g">>, <<"j","p","e","g">>, <<"p","n","g">>, <<"g","i","f">> } -> 1
          [] e = <<"m","p","4">> -> 2
          [] e \in { <<"m","p","3">>, <<"w","a","v">> } -> 3
          [] OTHER -> 4]

\* file_type = file_type_map.get(ext, 4)
FileType(ext) == IF ext \in DOMAIN file_type_map THEN file_type_map[ext] ELSE 4

\* BASE_URL
BASE_URL == IF SANDBOX THEN "https://sandbox.api.sgroup.qq.com" ELSE "https://api.sgroup.qq.com"

\* APP_ID, APP_SECRET
APP_ID == "102862558"

APP_SECRET == "APP_SECRET"

----------------------------------------------------------------------------
(* Inputs of a run *)

Prog == <<"p","y">>

GroupFlag == <<"-","-","g","r","o","u","p">>

OpenIds == { <<"U","1">>, <<"G","2">> }

Paths ==
    { <<"a",".","j","p","g">>, <<"a",".","J","P","G">>, <<"a",".","j","p","e","g">>,
      <<"a",".","p","n","g">>, <<"a",".","G","i","f">>,
      <<"a",".","m","p","4">>, <<"a",".","M","p","4">>,
      <<"a",".","m","p","3">>, <<"a",".","W","A","V">>,
      <<"n","o","t","e",".","t","x","t">>, <<"a",".","p","d","f">>,
      <<"a",".","x","y","z">>, <<"a",".","j","p","g",".","b","a","k">>,
      <<"a">>, <<"a",".">>, <<".","j","p","g">>,
      <<"d",".","p","n","g","/","a">>, <<"d","/","a",".","m","p","3">> }

\* command lines: with too few arguments, and with a path, an openid and
\* optionally --group
Argvs ==
    { <<Prog>> }
    \cup { <<Prog, p>> : p \in Paths }
    \cup { <<Prog, p, o>> : p \in Paths, o \in OpenIds }
    \cup { <<Prog, p, o, GroupFlag>> : p \in Paths, o \in OpenIds }

FileContents == { <<>>, <<16, 255, 0>> }

Boundaries == { "----boundary00", "----boundary01" }

TokenResponses ==
    { [access_token |-> Str("T1"), expires_in |-> Str("7200")],
      [access_token |-> Str(""), expires_in |-> Str("0")],
      [access_token |-> Null, expires_in |-> Null],
      [code |-> Num(100016), message |-> Str("invalid appid or secret")] }

UploadResponses ==
    { [file_info |-> Str("FI1"), ttl |-> Num(0)],
      [file_info |-> Str("FI2"), ttl |-> Num(0)],
      [file_info |-> Str(""), ttl |-> Num(0)],
      [file_info |-> Null, ttl |-> Num(0)],
      [code |-> Num(40034), message |-> Str("upload failed")] }

SendResponses ==
    { [code |-> Num(0), message |-> Str("ok")],
      [code |-> Num(22009), message |-> Str("msg limit exceed")],
      [code |-> Str("0"), message |-> Str("ok")],
      [code |-> Null, message |-> Str("")],
      [id |-> Str("M1"), timestamp |-> Num(1)] }

Init ==
    /\ script \in {"file", "image"}
    /\ argv \in Argvs
    /\ SANDBOX \in (IF script = "file" THEN BOOLEAN ELSE {TRUE})
    /\ fileKind \in {"missing", "regular", "directory"}
    /\ fileBytes \in (IF fileKind = "regular" THEN FileContents ELSE {<<>>})
    /\ pc = "main"
    /\ status = 0
    /\ token = Null
    /\ file_info = Null
    /\ success = FALSE
    /\ handleOpen = FALSE
    /\ file_data = <<>>
    /\ token_data = NoData
    /\ upload_data = NoData
    /\ send_data = NoData
    /\ requests = <<>>
    /\ events = <<>>
    /\ stdout = <<>>

----------------------------------------------------------------------------
(* Steps shared by the descriptions of both scripts *)

inputs == <<script, argv, SANDBOX, fileKind, fileBytes>>

\* variant: sys.exit() without the code
Exit_NoCode(code, lines) ==
    /\ pc' = "exited"
    /\ status' = 0
    /\ stdout' = stdout \o lines

\* sys.exit(code), after printing the given lines
Exit(code, lines) ==
    /\ pc' = "exited"
    /\ status' = code
    /\ stdout' = stdout \o lines

\* the headers of the upload and send requests
Headers(content_type) ==
    [Authorization |-> <<"QQBot", token>>, XUnionAppid |-> APP_ID, ContentType |-> content_type]

\* requests.post(...) or response.json() raises (connection failure, a body
\* that is not JSON): the exception is caught nowhere, the interpreter prints
\* the traceback to stderr and exits with status 1
request_raises ==
    /\ pc \in {"token_wait", "upload_wait", "send_wait"}
    /\ events' = Append(events, "raise")
    /\ Exit(1, <<>>)
    /\ UNCHANGED <<inputs, token, file_info, success, handleOpen, file_data,
                   token_data, upload_data, send_data, requests>>

\* variant: the file is opened without a with-block and never closed
HandleAfterWith_Leaked == TRUE

\* whether f is still open after "with open(file_path, 'rb') as f:" is left
HandleAfterWith == FALSE

\* the token request of get_access_token
TokenRequest ==
    [kind |-> "token",
     url  |-> "https://bots.qq.com/app/getAppAccessToken",
     json |-> [appId |-> APP_ID, clientSecret |-> APP_SECRET]]

\* the multipart body: the parts in the order they are appended
MultipartBody(boundary, file_type, ext, filename, content_type) ==
    [boundary |-> boundary,
     parts |-> << [name |-> "file_type", value |-> file_type],
                  [name |-> "file_type_data", value |-> ext],
                  [name |-> "file", filename |-> filename,
                   content_type |-> content_type, value |-> file_data] >>]

----------------------------------------------------------------------------
(* scripts/send_file_to_qq.py *)

\* main: the argument count check and the reading of the arguments
main_parse_args ==
    /\ script = "file" /\ pc = "main"
    /\ IF Len(argv) < 3
       THEN Exit(1, <<"Usage: python send_file_to_qq.py <file_path> <openid> [--group]">>)
       ELSE /\ pc' = "check_exists"
            /\ UNCHANGED <<status, stdout>>
    /\ UNCHANGED <<inputs, token, file_info, success, handleOpen, file_data,
                   token_data, upload_data, send_data, requests, events>>

\* is_group = "--group" in sys.argv
is_group == \E i \in 1..Len(argv) : argv[i] = GroupFlag

\* main: os.path.exists(file_path) and the banner
main_check_exists ==
    /\ script = "file" /\ pc = "check_exists"
    /\ IF fileKind = "missing"
       THEN Exit(1, <<"[ERROR] File not found">>)
       ELSE /\ pc' = "get_token"
            /\ stdout' = stdout \o <<"Sending file", IF is_group THEN "To: Group" ELSE "To: User",
                                     "[1/3] Getting access token...">>
            /\ UNCHANGED status
    /\ UNCHANGED <<inputs, token, file_info, success, handleOpen, file_data,
                   token_data, upload_data, send_data, requests, events>>

\* get_access_token: the POST
get_access_token_post ==
    /\ script = "file" /\ pc = "get_token"
    /\ requests' = Append(requests, TokenRequest)
    /\ events' = Append(events, "token_request")
    /\ pc' = "token_wait"
    /\ UNCHANGED <<inputs, status, token, file_info, success, handleOpen, file_data,
                   token_data, upload_data, send_data, stdout>>

\* get_access_token: the response, data.get("access_token"), and main's
\* test of the token
get_access_token_return ==
    /\ script = "file" /\ pc = "token_wait"
    /\ \E data \in TokenResponses :
        /\ token_data' = data
        /\ token' = Get(data, "access_token")
        /\ IF Not(Get(data, "access_token"))
           THEN Exit(1, <<"[ERROR] Failed to get access token">>)
           ELSE /\ pc' = "upload_open"
                /\ stdout' = stdout \o <<"[OK] Token obtained", "[2/3] Uploading file...">>
                /\ UNCHANGED status
    /\ events' = Append(events, "token_response")
    /\ UNCHANGED <<inputs, file_info, success, handleOpen, file_data,
                   upload_data, send_data, requests>>

\* upload_file: open(file_path, 'rb'); raises when the path names no regular
\* file, and the exception ends the process with status 1
upload_file_open ==
    /\ script = "file" /\ pc = "upload_open"
    /\ IF fileKind = "regular"
       THEN /\ handleOpen' = TRUE
            /\ events' = Append(events, "open")
            /\ pc' = "upload_read"
            /\ UNCHANGED <<status, stdout>>
       ELSE /\ events' = Append(events, "raise")
            /\ Exit(1, <<>>)
            /\ UNCHANGED handleOpen
    /\ UNCHANGED <<inputs, token, file_info, success, file_data,
                   token_data, upload_data, send_data, requests>>

\* upload_file: f.read() and the end of the with-block, which closes f
upload_file_read ==
    /\ script = "file" /\ pc = "upload_read"
    /\ file_data' = fileBytes
    /\ handleOpen' = HandleAfterWith
    /\ events' = Append(events, "close")
    /\ pc' = "upload_post"
    /\ UNCHANGED <<inputs, status, token, file_info, success,
                   token_data, upload_data, send_data, requests, stdout>>

\* upload_file: the type code, the multipart body and the POST
upload_file_post ==
    /\ script = "file" /\ pc = "upload_post"
    /\ \E boundary \in Boundaries :
        LET file_path == argv[2]
            ext == Ext(file_path)
            file_type == FileType(ext)
        IN  requests' = Append(requests,
                [kind |-> "upload",
                 url |-> <<BASE_URL, "v2", "files">>,
                 headers |-> Headers(<<"multipart/form-data", boundary>>),
                 data |-> MultipartBody(boundary, file_type, ext, Basename(file_path),
                                        "application/octet-stream")])
    /\ events' = Append(events, "upload_request")
    /\ pc' = "upload_wait"
    /\ UNCHANGED <<inputs, status, token, file_info, success, handleOpen, file_data,
                   token_data, upload_data, send_data, stdout>>

\* upload_file: the response, the test "file_info" in data, and main's test
\* of the value returned
upload_file_return ==
    /\ script = "file" /\ pc = "upload_wait"
    /\ \E data \in UploadResponses :
        LET returned == IF "file_info" \in DOMAIN data THEN data["file_info"] ELSE Null
            printed == IF "file_info" \in DOMAIN data
                       THEN "[OK] File uploaded" ELSE "[ERROR] Upload failed"
        IN  /\ upload_data' = data
            /\ file_info' = returned
            /\ IF Not(returned)
               THEN Exit(1, <<printed, "[ERROR] Failed to upload file">>)
               ELSE /\ pc' = "send_post"
                    /\ stdout' = stdout \o <<printed, "[3/3] Sending message...">>
                    /\ UNCHANGED status
    /\ events' = Append(events, "upload_response")
    /\ UNCHANGED <<inputs, token, success, handleOpen, file_data,
                   token_data, send_data, requests>>

\* variant: the two branches exchanged
SendFileUrl_Swapped(openid, group) ==
    IF group
    THEN <<BASE_URL, "v2", "users", openid, "messages">>
    ELSE <<BASE_URL, "v2", "groups", openid, "messages">>

\* send_file_message: path and url
SendFileUrl(openid, group) ==
    IF group
    THEN <<BASE_URL, "v2", "groups", openid, "messages">>
    ELSE <<BASE_URL, "v2", "users", openid, "messages">>

\* variant: the token is embedded in place of the file reference
FileMedia_Token(info) == << [file_info |-> token] >>

\* send_file_message: the media array of the body
FileMedia(info) == << [file_info |-> info] >>

\* send_file_message: the path, the body and the POST
send_file_message_post ==
    /\ script = "file" /\ pc = "send_post"
    /\ LET openid == argv[3]
           url == SendFileUrl(openid, is_group)
           body == [msg_type |-> 7, media |-> FileMedia(file_info)]
       IN  requests' = Append(requests,
               [kind |-> "send", url |-> url,
                headers |-> Headers("application/json"), json |-> body])
    /\ events' = Append(events, "send_request")
    /\ pc' = "send_wait"
    /\ UNCHANGED <<inputs, status, token, file_info, success, handleOpen, file_data,
                   token_data, upload_data, send_data, stdout>>

\* send_file_message: the response, data.get("code") == 0, and main's report
send_file_message_return ==
    /\ script = "file" /\ pc = "send_wait"
    /\ \E data \in SendResponses :
        LET ok == Get(data, "code") = Num(0)
        IN  /\ send_data' = data
            /\ success' = ok
            /\ IF ok
               THEN Exit(0, <<"[OK] Message sent", "File sent successfully!">>)
               ELSE Exit(1, <<"[ERROR] Send failed", "[ERROR] Failed to send message">>)
    /\ events' = Append(events, "send_response")
    /\ UNCHANGED <<inputs, token, file_info, handleOpen, file_data,
                   token_data, upload_data, requests>>

----------------------------------------------------------------------------
(* scripts/send_image_qq.py *)

\* the main block: the argument count check, the reading of the arguments
\* and the banner; the path is not tested for existence
image_main_parse_args ==
    /\ script = "image" /\ pc = "main"
    /\ IF Len(argv) < 3
       THEN Exit(1, <<"Usage: python send_image_qq.py <image_path> <openid>">>)
       ELSE /\ pc' = "get_token"
            /\ stdout' = stdout \o <<"Sending image">>
            /\ UNCHANGED status
    /\ UNCHANGED <<inputs, token, file_info, success, handleOpen, file_data,
                   token_data, upload_data, send_data, requests, events>>

\* get_access_token: the POST
image_get_access_token_post ==
    /\ script = "image" /\ pc = "get_token"
    /\ requests' = Append(requests, TokenRequest)
    /\ events' = Append(events, "token_request")
    /\ pc' = "token_wait"
    /\ UNCHANGED <<inputs, status, token, file_info, success, handleOpen, file_data,
                   token_data, upload_data, send_data, stdout>>

\* get_access_token: the response, data.get("access_token"), and the main
\* block's test of the token
image_get_access_token_return ==
    /\ script = "image" /\ pc = "token_wait"
    /\ \E data \in TokenResponses :
        /\ token_data' = data
        /\ token' = Get(data, "access_token")
        /\ IF Not(Get(data, "access_token"))
           THEN Exit(1, <<"[ERROR] Failed to get token">>)
           ELSE /\ pc' = "upload_open"
                /\ stdout' = stdout \o <<"[OK] Token obtained", "[1/2] Uploading image...">>
                /\ UNCHANGED status
    /\ events' = Append(events, "token_response")
    /\ UNCHANGED <<inputs, file_info, success, handleOpen, file_data,
                   upload_data, send_data, requests>>

\* upload_image: open(file_path, 'rb'); raises when the path names no regular
\* file, and the exception ends the process with status 1
upload_image_open ==
    /\ script = "image" /\ pc = "upload_open"
    /\ IF fileKind = "regular"
       THEN /\ handleOpen' = TRUE
            /\ events' = Append(events, "open")
            /\ pc' = "upload_read"
            /\ UNCHANGED <<status, stdout>>
       ELSE /\ events' = Append(events, "raise")
            /\ Exit(1, <<>>)
            /\ UNCHANGED handleOpen
    /\ UNCHANGED <<inputs, token, file_info, success, file_data,
                   token_data, upload_data, send_data, requests>>

\* upload_image: f.read() and the end of the with-block, which closes f
upload_image_read ==
    /\ script = "image" /\ pc = "upload_read"
    /\ file_data' = fileBytes
    /\ handleOpen' = HandleAfterWith
    /\ events' = Append(events, "close")
    /\ pc' = "upload_post"
    /\ UNCHANGED <<inputs, status, token, file_info, success,
                   token_data, upload_data, send_data, requests, stdout>>

\* upload_image: the multipart body, with file_type written as the literal 1
\* and the filename as image.<ext>, and the POST
upload_image_post ==
    /\ script = "image" /\ pc = "upload_post"
    /\ \E boundary \in Boundaries :
        LET file_path == argv[2]
            ext == Ext(file_path)
        IN  requests' = Append(requests,
                [kind |-> "upload",
                 url |-> <<BASE_URL, "v2", "files">>,
                 headers |-> Headers(<<"multipart/form-data", boundary>>),
                 data |-> MultipartBody(boundary, 1, ext,
                                        <<"i","m","a","g","e",".">> \o ext, "image/jpeg")])
    /\ events' = Append(events, "upload_request")
    /\ pc' = "upload_wait"
    /\ UNCHANGED <<inputs, status, token, file_info, success, handleOpen, file_data,
                   token_data, upload_data, send_data, stdout>>

\* upload_image: the response, data.get("file_info"), and the main block's
\* test of the value returned
upload_image_return ==
    /\ script = "image" /\ pc = "upload_wait"
    /\ \E data \in UploadResponses :
        /\ upload_data' = data
        /\ file_info' = Get(data, "file_info")
        /\ IF Not(Get(data, "file_info"))
           THEN Exit(1, <<"Upload response", "[ERROR] Upload failed">>)
           ELSE /\ pc' = "send_post"
                /\ stdout' = stdout \o <<"Upload response", "[OK] Uploaded",
                                         "[2/2] Sending message...">>
                /\ UNCHANGED status
    /\ events' = Append(events, "upload_response")
    /\ UNCHANGED <<inputs, token, success, handleOpen, file_data,
                   token_data, send_data, requests>>

\* send_image_message: the url, the users path whatever the command line
SendImageUrl(openid) == <<BASE_URL, "v2", "users", openid, "messages">>

\* send_image_message: the media array of the body
ImageMedia(info) == << [type |-> Str("image"), content |-> info] >>

\* send_image_message: the url, the body and the POST
send_image_message_post ==
    /\ script = "image" /\ pc = "send_post"
    /\ LET openid == argv[3]
           url == SendImageUrl(openid)
           body == [msg_type |-> 7, media |-> ImageMedia(file_info)]
       IN  requests' = Append(requests,
               [kind |-> "send", url |-> url,
                headers |-> Headers("application/json"), json |-> body])
    /\ events' = Append(events, "send_request")
    /\ pc' = "send_wait"
    /\ UNCHANGED <<inputs, status, token, file_info, success, handleOpen, file_data,
                   token_data, upload_data, send_data, stdout>>

\* send_image_message: the response, data.get("code") == 0, and the main
\* block's report; the block ends without sys.exit on either branch, so the
\* exit status is 0
send_image_message_return ==
    /\ script = "image" /\ pc = "send_wait"
    /\ \E data \in SendResponses :
        LET ok == Get(data, "code") = Num(0)
        IN  /\ send_data' = data
            /\ success' = ok
            /\ IF ok
               THEN Exit(0, <<"Send response", "[SUCCESS] Image sent!">>)
               ELSE Exit(0, <<"Send response", "[ERROR] Failed to send">>)
    /\ events' = Append(events, "send_response")
    /\ UNCHANGED <<inputs, token, file_info, handleOpen, file_data,
                   token_data, upload_data, requests>>

----------------------------------------------------------------------------

Next ==
    \/ main_parse_args
    \/ main_check_exists
    \/ get_access_token_post
    \/ get_access_token_return
    \/ upload_file_open
    \/ upload_file_read
    \/ upload_file_post
    \/ upload_file_return
    \/ send_file_message_post
    \/ send_file_message_return
    \/ image_main_parse_args
    \/ image_get_access_token_post
    \/ image_get_access_token_return
    \/ upload_image_open
    \/ upload_image_read
    \/ upload_image_post
    \/ upload_image_return
    \/ send_image_message_post
    \/ send_image_message_return
    \/ request_raises

Spec == Init /\ [][Next]_vars

----------------------------------------------------------------------------
(* Vocabulary of the properties *)

\* the number of requests of a kind issued so far
Count(kind) == Cardinality({ i \in DOMAIN requests : requests[i].kind = kind })

\* the position of the first occurrence of an event, 0 when it has not occurred
Pos(e) ==
    IF \E i \in DOMAIN events : events[i] = e
    THEN CHOOSE i \in DOMAIN events : events[i] = e /\ \A j \in 1..(i-1) : events[j] # e
    ELSE 0

\* e has occurred, and did so before f (f itself has occurred)
Before(e, f) == 0 < Pos(e) /\ Pos(e) < Pos(f)

Rank(kind) == CASE kind = "token" -> 1 [] kind = "upload" -> 2 [] kind = "send" -> 3

Printed(line) == \E i \in DOMAIN stdout : stdout[i] = line

ReportsSuccess ==
    /\ pc = "exited" /\ status = 0
    /\ IF script = "file" THEN Printed("File sent successfully!")
                          ELSE Printed("[SUCCESS] Image sent!")

ReportsSendFailure ==
    IF script = "file" THEN Printed("[ERROR] Failed to send message")
                       ELSE Printed("[ERROR] Failed to send")

\* a request is in flight
InFlight == pc \in {"token_wait", "upload_wait", "send_wait"}

----------------------------------------------------------------------------
(* C1: in every run of either script the requests go out in the order     *)
(* token, upload, send, at most one of each; the upload request follows a  *)
(* token response that carried a token, the send request follows an upload *)
(* response that carried a file_info; and a run whose three responses have *)
(* their success shape (access_token present, file_info present, code 0)   *)
(* has issued exactly one request of each kind and ends reporting success. *)
C1_LinearOrder ==
    /\ \A k \in {"token", "upload", "send"} : Count(k) <= 1
    /\ \A i, j \in DOMAIN requests :
          i < j => Rank(requests[i].kind) < Rank(requests[j].kind)
    /\ Count("upload") > 0 =>
          /\ Before("token_request", "token_response")
          /\ Before("token_response", "upload_request")
          /\ Truthy(Get(token_data, "access_token"))
    /\ Count("send") > 0 =>
          /\ Before("upload_request", "upload_response")
          /\ Before("upload_response", "send_request")
          /\ Truthy(Get(upload_data, "file_info"))
    /\ ( /\ "access_token" \in DOMAIN token_data
         /\ "file_info" \in DOMAIN upload_data
         /\ "code" \in DOMAIN send_data /\ send_data["code"] = Num(0) ) =>
          /\ \A k \in {"token", "upload", "send"} : Count(k) = 1
          /\ ReportsSuccess

\* a run that got three success responses and has ended
C1_Witness ==
    /\ pc = "exited" /\ success
    /\ Len(requests) = 3
    /\ Get(send_data, "code") = Num(0)

(* C2: a token response without access_token ends the run with a non-zero  *)
(* status and neither an upload nor a send request; an upload response     *)
(* without file_info ends it with a non-zero status and no send request.   *)
C2_FailedStageStops ==
    /\ (token_data # NoData /\ "access_token" \notin DOMAIN token_data) =>
          /\ pc = "exited" /\ status # 0
          /\ Count("upload") = 0 /\ Count("send") = 0
    /\ (upload_data # NoData /\ "file_info" \notin DOMAIN upload_data) =>
          /\ pc = "exited" /\ status # 0
          /\ Count("send") = 0

\* the image script stopped by an upload response without file_info
C2_Witness ==
    /\ script = "image"
    /\ upload_data # NoData /\ "file_info" \notin DOMAIN upload_data
    /\ pc = "exited" /\ Len(requests) = 2

(* C3: after a send response whose code is not 0 (or is absent) the run    *)
(* reports the failure, exits with a non-zero status and has issued no     *)
(* request after the send, in the file script and in the image script.     *)
C3_SendFailureExitsNonZero ==
    (send_data # NoData /\ Get(send_data, "code") # Num(0)) =>
        /\ ReportsSendFailure
        /\ pc = "exited" /\ status # 0
        /\ requests[Len(requests)].kind = "send"

----------------------------------------------------------------------------
(* The extension table of the specification, written out on its own *)

\* the lowercased, dot-less extension of each path of Paths; a name that
\* only starts with a dot, or whose dot is in a directory, has none
ExpectedExtension ==
    [p \in Paths |->
        CASE p = <<"a",".","j","p","g">> -> <<"j","p","g">>
          [] p = <<"a",".","J","P","G">> -> <<"j","p","g">>
          [] p = <<"a",".","j","p","e","g">> -> <<"j","p","e","g">>
          [] p = <<"a",".","p","n","g">> -> <<"p","n","g">>
          [] p = <<"a",".","G","i","f">> -> <<"g","i","f">>
          [] p = <<"a",".","m","p","4">> -> <<"m","p","4">>
          [] p = <<"a",".","M","p","4">> -> <<"m","p","4">>
          [] p = <<"a",".","m","p","3">> -> <<"m","p","3">>
          [] p = <<"a",".","W","A","V">> -> <<"w","a","v">>
          [] p = <<"n","o","t","e",".","t","x","t">> -> <<"t","x","t">>
          [] p = <<"a",".","p","d","f">> -> <<"p","d","f">>
          [] p = <<"a",".","x","y","z">> -> <<"x","y","z">>
          [] p = <<"a",".","j","p","g",".","b","a","k">> -> <<"b","a","k">>
          [] p = <<"d","/","a",".","m","p","3">> -> <<"m","p","3">>
          [] OTHER -> <<>>]

\* jpg, jpeg, png, gif: 1; mp4: 2; mp3, wav: 3; anything else: 4
ExpectedCode(e) ==
    IF e \in { <<"j","p","g">>, <<"j","p","e","g">>, <<"p","n","g">>, <<"g","i","f">> } THEN 1
    ELSE IF e = <<"m","p","4">> THEN 2
    ELSE IF e \in { <<"m","p","3">>, <<"w","a","v">> } THEN 3
    ELSE 4

\* the upload requests issued so far
UploadRequests == { requests[i] : i \in { j \in DOMAIN requests : requests[j].kind = "upload" } }

SendRequests == { requests[i] : i \in { j \in DOMAIN requests : requests[j].kind = "send" } }

\* the form fields of an upload request
FileTypeField(r) == r.data.parts[1].value

FileTypeDataField(r) == r.data.parts[2].value

(* C4: the type code upload_file puts in the request is the one the        *)
(* specification's table gives for the lowercased extension of the path:   *)
(* 1 for jpg, jpeg, png, gif; 2 for mp4; 3 for mp3, wav; 4 for the rest,   *)
(* the empty extension included; JPG, Mp4 get the code of jpg, mp4.        *)
C4_UploadFileTypeCode ==
    script = "file" =>
        \A r \in UploadRequests :
            /\ r.data.parts[1].name = "file_type"
            /\ FileTypeField(r) = ExpectedCode(ExpectedExtension[argv[2]])

\* upload_file has classified a.Mp4 as video
C4_Witness ==
    /\ script = "file"
    /\ Len(argv) >= 3
    /\ argv[2] = <<"a",".","M","p","4">>
    /\ \E r \in UploadRequests : FileTypeField(r) = 2

(* C5 as stated: in every upload request of either script, file_type is    *)
(* the table's code for the lowercased extension and file_type_data is     *)
(* that extension.                                                         *)
C5_Original ==
    \A r \in UploadRequests :
        /\ FileTypeField(r) = ExpectedCode(ExpectedExtension[argv[2]])
        /\ FileTypeDataField(r) = ExpectedExtension[argv[2]]

(* C5 amended: file_type_data is the lowercased extension in both scripts; *)
(* file_type is the table's code for it in upload_file, and is 1 whatever  *)
(* the extension in upload_image.                                          *)
C5_FileTypeFields ==
    \A r \in UploadRequests :
        /\ r.data.parts[2].name = "file_type_data"
        /\ FileTypeDataField(r) = ExpectedExtension[argv[2]]
        /\ script = "file" => FileTypeField(r) = ExpectedCode(ExpectedExtension[argv[2]])
        /\ script = "image" => FileTypeField(r) = 1

\* upload_image has sent a text file as file_type 1, file_type_data txt
C5_Witness ==
    /\ script = "image"
    /\ \E r \in UploadRequests :
          /\ FileTypeField(r) = 1
          /\ FileTypeDataField(r) = <<"t","x","t">>

(* C6: every send request has msg_type 7 and a media array of one element  *)
(* that carries the file_info value of this run's upload response          *)
(* unchanged; in the file script the element has the single key file_info, *)
(* in the image script it carries the value (under content) together with  *)
(* the tag type = "image".                                                 *)
C6_SendEnvelope ==
    \A r \in SendRequests :
        /\ r.json.msg_type = 7
        /\ Len(r.json.media) = 1
        /\ "file_info" \in DOMAIN upload_data
        /\ LET m == r.json.media[1]
           IN  IF script = "file"
               THEN /\ DOMAIN m = {"file_info"}
                    /\ m["file_info"] = upload_data["file_info"]
               ELSE /\ DOMAIN m = {"type", "content"}
                    /\ m["type"] = Str("image")
                    /\ m["content"] = upload_data["file_info"]

\* a send request of the image script carrying the second reference
C6_Witness ==
    /\ script = "image"
    /\ upload_data # NoData /\ Get(upload_data, "file_info") = Str("FI2")
    /\ SendRequests # {}

\* the command line asks for a group target
GroupRequested == \E i \in DOMAIN argv : argv[i] = GroupFlag

(* C7 as stated: in both scripts the send request goes to the groups path  *)
(* of the target id exactly when the target kind is Group, and to the      *)
(* users path of the target id exactly when it is User.                    *)
C7_Original ==
    \A r \in SendRequests :
        /\ r.url[2] = "v2" /\ r.url[4] = argv[3] /\ r.url[5] = "messages"
        /\ r.url[3] = (IF GroupRequested THEN "groups" ELSE "users")

(* C7 amended: send_file_to_qq sends to the groups path of the target id   *)
(* exactly when --group is given and to the users path otherwise;          *)
(* send_image_qq has no target kind and always sends to the users path of  *)
(* the target id, also when --group is on its command line.                *)
C7_EndpointSelection ==
    \A r \in SendRequests :
        /\ Len(r.url) = 5
        /\ r.url[1] = BASE_URL
        /\ r.url[2] = "v2" /\ r.url[4] = argv[3] /\ r.url[5] = "messages"
        /\ script = "file" => r.url[3] = (IF GroupRequested THEN "groups" ELSE "users")
        /\ script = "image" => r.url[3] = "users"

\* the file script has sent to a group
C7_Witness ==
    /\ script = "file" /\ GroupRequested
    /\ \E r \in SendRequests : r.url[3] = "groups" /\ r.url[4] = <<"G","2">>

(* C8: when the file path or the target id is missing from the command     *)
(* line, or the path names nothing on disk, no token, upload or send       *)
(* request is ever issued and the exit status is non-zero, in the file     *)
(* script and in the image script.                                         *)
C8_BadInputExitsBeforeWorkflow ==
    (Len(argv) < 3 \/ fileKind = "missing") =>
        /\ requests = <<>>
        /\ pc = "exited" => status # 0

(* C9 as stated: no token, upload or send request is issued before the     *)
(* file has been opened, read and closed, and no handle is open while a    *)
(* request is in flight.                                                   *)
C9_Original ==
    /\ \A e \in {"token_request", "upload_request", "send_request"} :
          Pos(e) > 0 => (Before("open", "close") /\ Before("close", e))
    /\ InFlight => ~handleOpen

(* C9 amended: the token request is issued, and answered, before the file  *)
(* is opened; the file is opened, read in full and closed before the       *)
(* upload request and the send request are issued; and no handle is open   *)
(* while a request is in flight.                                           *)
C9_FileReadBeforeUpload ==
    /\ Pos("open") > 0 => Before("token_response", "open")
    /\ \A e \in {"upload_request", "send_request"} :
          Pos(e) > 0 => /\ Before("open", "close") /\ Before("close", e)
                        /\ file_data = fileBytes
    /\ \A r \in UploadRequests : r.data.parts[3].value = fileBytes
    /\ InFlight => ~handleOpen
    /\ pc = "exited" => ~handleOpen

\* the upload request of a non-empty file is in flight
C9_Witness ==
    /\ pc = "upload_wait"
    /\ fileBytes # <<>>
    /\ Before("close", "upload_request")

(* C10 as stated: an upload response that has the key file_info, whatever  *)
(* its value, does not end the run as an upload failure: the run goes on   *)
(* to the send request, which carries that value; a response without the   *)
(* key ends the run.                                                       *)
C10_Original ==
    /\ (upload_data # NoData /\ "file_info" \in DOMAIN upload_data) =>
          /\ ~(pc = "exited" /\ Count("send") = 0)
          /\ ~Printed("[ERROR] Failed to upload file") /\ ~Printed("[ERROR] Upload failed")
    /\ (upload_data # NoData /\ "file_info" \notin DOMAIN upload_data) =>
          (pc = "exited" /\ Count("send") = 0)

\* the reference a send request carries
Reference(r) ==
    IF script = "file" THEN r.json.media[1]["file_info"] ELSE r.json.media[1]["content"]

(* C10 amended: an upload response whose file_info is present and truthy   *)
(* (not null, not the empty string) lets the run go on to the send         *)
(* request, which carries that value; a response whose file_info is absent *)
(* or present but null or empty ends the run as an upload failure, with a  *)
(* non-zero status and no send request.                                    *)
C10_TruthyFileInfoProceeds ==
    upload_data # NoData =>
        IF "file_info" \in DOMAIN upload_data /\ upload_data["file_info"] \notin {Null, Str("")}
        THEN /\ ~(pc = "exited" /\ Count("send") = 0)
             /\ pc # "send_post" => /\ Count("send") = 1
                                    /\ \A r \in SendRequests : Reference(r) = upload_data["file_info"]
             /\ ~Printed("[ERROR] Failed to upload file") /\ ~Printed("[ERROR] Upload failed")
        ELSE /\ pc = "exited" /\ status # 0
             /\ Count("send") = 0
             /\ IF script = "file" THEN Printed("[ERROR] Failed to upload file")
                                   ELSE Printed("[ERROR] Upload failed")

\* the file script, stopped by an upload response whose file_info is ""
C10_Witness ==
    /\ script = "file"
    /\ "file_info" \in DOMAIN upload_data /\ upload_data["file_info"] = Str("")
    /\ pc = "exited" /\ Count("send") = 0

====
